---- MODULE Spec2Model ----
(***************************************************************************)
(* Model of VoogtNutrientAlgorithm.calculate_drip_recipe (src/App.py) and  *)
(* of the rendering of its alerts.                                         *)
(*                                                                         *)
(* Concentrations are Python floats in the source.  They are modelled as   *)
(* exact rationals <<numerator, denominator>> in lowest terms with a       *)
(* positive denominator, so the arithmetic below is the real-number        *)
(* arithmetic the float code approximates; rounding error of the float     *)
(* operations is not modelled.                                             *)
(***************************************************************************)
EXTENDS Integers, Sequences, FiniteSets, TLC

VARIABLES target_vals, analysis_vals, uptake_vals, water_vals,
          target_ec, correction_factor,
          pc, idx, warnings, correction_term, adjusted_vals,
          imbalance, current_meq, estimated_ec, ec_ratio,
          final_drip_conc, fertilizer_needs, df_results, rendered

vars == <<target_vals, analysis_vals, uptake_vals, water_vals,
          target_ec, correction_factor,
          pc, idx, warnings, correction_term, adjusted_vals,
          imbalance, current_meq, estimated_ec, ec_ratio,
          final_drip_conc, fertilizer_needs, df_results, rendered>>

inputs == <<target_vals, analysis_vals, uptake_vals, water_vals,
            target_ec, correction_factor>>

(***************************************************************************)
(* Exact rational arithmetic standing for Python's float operators.        *)
(***************************************************************************)
RECURSIVE GCD(_, _)
GCD(a, b) == IF b = 0 THEN a ELSE GCD(b, a % b)

IAbs(n) == IF n < 0 THEN -n ELSE n

R(n, d) ==
    LET s == IF d < 0 THEN -1 ELSE 1
        g == GCD(IAbs(n), IAbs(d))
    IN  <<(s * n) \div g, (s * d) \div g>>

Zero == <<0, 1>>

RAdd(x, y) == R(x[1] * y[2] + y[1] * x[2], x[2] * y[2])
RNeg(x) == <<-x[1], x[2]>>
RSub(x, y) == RAdd(x, RNeg(y))
RMul(x, y) == R(x[1] * y[1], x[2] * y[2])
RDiv(x, y) == R(x[1] * y[2], x[2] * y[1])
RAbs(x) == <<IAbs(x[1]), x[2]>>
RLt(x, y) == x[1] * y[2] < y[1] * x[2]
RGt(x, y) == RLt(y, x)
RLe(x, y) == ~RLt(y, x)
RGe(x, y) == ~RLt(x, y)

(***************************************************************************)
(* Program constants.                                                      *)
(***************************************************************************)
elements == <<"NO3", "H2PO4", "SO4", "K", "Ca", "Mg", "NH4">>

Ions == {elements[k] : k \in 1..Len(elements)}

valences == [el \in {"K", "Ca", "Mg", "NH4", "Na", "NO3", "SO4", "H2PO4", "Cl", "HCO3"} |->
                IF el \in {"Ca", "Mg", "SO4"} THEN 2 ELSE 1]

Cations == <<"K", "Ca", "Mg", "NH4">>
Anions == <<"NO3", "SO4", "H2PO4">>
Unscaled == {"NH4", "H2PO4"}

CapShare == R(6, 10)
Tolerance == R(1, 10)
MeqEpsilon == R(1, 10)
EcPerMeq == R(10, 1)
EcFloor == R(2, 10)
Half == R(5, 10)

\* dict.get(el, 0.0)
Get(vals, el) == IF el \in DOMAIN vals THEN vals[el] ELSE Zero

\* sum(vals[el] * self.valences[el] for el in els if el in vals)
RECURSIVE SumMeq(_, _)
SumMeq(vals, els) ==
    IF els = <<>> THEN Zero
    ELSE LET el == Head(els)
             rest == SumMeq(vals, Tail(els))
         IN  IF el \in DOMAIN vals
             THEN RAdd(RMul(vals[el], R(valences[el], 1)), rest)
             ELSE rest

\* A warning string: its leading pictogram, the ion it names ("" for a
\* balance note) and its fixed text.
Warning(icon, el, text) == [icon |-> icon, el |-> el, text |-> text]

\* DataFrame.round(2): round half to even at two decimals
Round2(x) ==
    LET n == 100 * x[1]
        q == n \div x[2]
        r == n - q * x[2]
    IN  IF 2 * r < x[2] THEN R(q, 100)
        ELSE IF 2 * r > x[2] THEN R(q + 1, 100)
        ELSE IF q % 2 = 0 THEN R(q, 100) ELSE R(q + 1, 100)

\* one column of the summary DataFrame built from a dict
Column(vals) == [el \in Ions |-> IF el \in DOMAIN vals THEN Round2(vals[el]) ELSE "NaN"]

(***************************************************************************)
(* Inputs.  The form is pre-filled from a crop profile (analysis = target, *)
(* water 0.5 for Ca, Mg and SO4) or is all zero, and the four entries of   *)
(* one ion are then set to values on a small grid; the water entry of that *)
(* ion may also be absent from the dict.                                   *)
(***************************************************************************)
MaxTarget == 2
MaxAnalysis == 1
MaxUptake == 1
MaxWater == 1

TargetInputs == {R(5 * k, 1) : k \in -1..MaxTarget}
AnalysisInputs == {R(-5, 1), Zero, R(5, 1)} \cup {R(20 * k, 1) : k \in 1..MaxAnalysis}
UptakeInputs == {R(-1, 1), Zero, R(1, 20)} \cup {R(3 * k, 1) : k \in 1..MaxUptake}
WaterInputs == {Zero} \cup {R(3 * k, 1) : k \in 1..MaxWater}
EcInputs == {R(-1, 1), R(25, 10)}
FactorInputs == {R(5, 10), R(1, 1)}

Concombre ==
    [targets |-> [el \in Ions |->
                    CASE el = "NO3" -> R(18, 1) [] el = "H2PO4" -> R(9, 10)
                      [] el = "SO4" -> R(35, 10) [] el = "K" -> R(8, 1)
                      [] el = "Ca" -> R(65, 10) [] el = "Mg" -> R(3, 1)
                      [] el = "NH4" -> R(5, 10)],
     uptake |-> [el \in Ions |->
                    CASE el = "NO3" -> R(16, 1) [] el = "H2PO4" -> R(125, 100)
                      [] el = "SO4" -> R(13, 10) [] el = "K" -> R(8, 1)
                      [] el = "Ca" -> R(4, 1) [] el = "Mg" -> R(14, 10)
                      [] el = "NH4" -> R(1, 1)],
     water |-> [el \in Ions |-> IF el \in {"Ca", "Mg", "SO4"} THEN R(5, 10) ELSE Zero]]

Blank ==
    [targets |-> [el \in Ions |-> Zero],
     uptake |-> [el \in Ions |-> Zero],
     water |-> [el \in Ions |-> Zero]]

Profiles == {Concombre, Blank}

Override(vals, el, v) == [vals EXCEPT ![el] = v]
Without(vals, el) == [x \in DOMAIN vals \ {el} |-> vals[x]]

Init ==
    /\ \E p \in Profiles, el \in Ions :
          /\ \E t \in TargetInputs : target_vals = Override(p.targets, el, t)
          /\ \E a \in AnalysisInputs : analysis_vals = Override(p.targets, el, a)
          /\ \E u \in UptakeInputs : uptake_vals = Override(p.uptake, el, u)
          /\ \/ \E w \in WaterInputs : water_vals = Override(p.water, el, w)
             \/ water_vals = Without(p.water, el)
    /\ target_ec \in EcInputs
    /\ correction_factor \in FactorInputs
    /\ pc = "feedback"
    /\ idx = 1
    /\ warnings = <<>>
    /\ correction_term = <<>>
    /\ adjusted_vals = <<>>
    /\ imbalance = Zero
    /\ current_meq = Zero
    /\ estimated_ec = Zero
    /\ ec_ratio = Zero
    /\ final_drip_conc = <<>>
    /\ fertilizer_needs = <<>>
    /\ df_results = <<>>
    /\ rendered = <<>>

(***************************************************************************)
(* Stage A: feedback adjustment, one iteration of the loop over elements.  *)
(***************************************************************************)
\* the cap left out
CappedCorrection_NoCap(target, analysis, factor) ==
    RMul(RSub(target, analysis), factor)

\* correction_term after the cap
CappedCorrection(target, analysis, factor) ==
    LET gap == RSub(target, analysis)
        max_correction == RMul(target, CapShare)
        term == RMul(gap, factor)
    IN  IF RGt(RAbs(term), max_correction)
        THEN (IF RGt(gap, Zero) THEN max_correction ELSE RNeg(max_correction))
        ELSE term

\* the comparison made non-strict
IsCapped_NonStrict(target, analysis, factor) ==
    RGe(RAbs(RMul(RSub(target, analysis), factor)), RMul(target, CapShare))

\* whether the cap branch is taken
IsCapped(target, analysis, factor) ==
    RGt(RAbs(RMul(RSub(target, analysis), factor)), RMul(target, CapShare))

\* the comparison made non-strict
SupplyCut_NonStrict(base_calc) == RLe(base_calc, Zero)

\* whether the floor branch is taken
SupplyCut(base_calc) == RLt(base_calc, Zero)

\* the floor left out
FlooredBase_NoFloor(base_calc) == base_calc

\* base_calc after the floor at zero
FlooredBase(base_calc) == IF RLt(base_calc, Zero) THEN Zero ELSE base_calc

FeedbackStep ==
    /\ pc = "feedback"
    /\ LET el == elements[idx]
           target == Get(target_vals, el)
           analysis == Get(analysis_vals, el)
           uptake == Get(uptake_vals, el)
           term == CappedCorrection(target, analysis, correction_factor)
           base_calc == RAdd(uptake, term)
           w1 == IF IsCapped(target, analysis, correction_factor)
                 THEN Append(warnings, Warning("warning_sign", el, "Correction plafonnee"))
                 ELSE warnings
           w2 == IF SupplyCut(base_calc)
                 THEN Append(w1, Warning("chart_decreasing", el, "Stock substrat critique"))
                 ELSE w1
       IN  /\ correction_term' = (el :> term) @@ correction_term
           /\ adjusted_vals' = (el :> FlooredBase(base_calc)) @@ adjusted_vals
           /\ warnings' = w2
    /\ IF idx < Len(elements)
       THEN idx' = idx + 1 /\ pc' = pc
       ELSE idx' = 1 /\ pc' = "balance"
    /\ UNCHANGED <<inputs, imbalance, current_meq, estimated_ec, ec_ratio,
                   final_drip_conc, fertilizer_needs, df_results, rendered>>

(***************************************************************************)
(* Stage B: ionic balancing.                                               *)
(***************************************************************************)
\* imbalance = sum_cations - sum_anions
Imbalance(vals) == RSub(SumMeq(vals, Cations), SumMeq(vals, Anions))

\* the Ca share not divided by the valence of Ca
Balanced_CaByCharge(vals) ==
    LET imb == RSub(SumMeq(vals, Cations), SumMeq(vals, Anions))
    IN  IF RGt(imb, Tolerance)
        THEN [vals EXCEPT !["NO3"] = RAdd(@, RDiv(imb, R(valences["NO3"], 1)))]
        ELSE IF RLt(imb, RNeg(Tolerance))
        THEN LET missing == RAbs(imb)
             IN  [vals EXCEPT
                    !["K"] = RAdd(@, RDiv(RMul(missing, Half), R(valences["K"], 1))),
                    !["Ca"] = RAdd(@, RMul(missing, Half))]
        ELSE vals

\* adjusted_vals after the correction of the balance
Balanced(vals) ==
    LET imb == Imbalance(vals)
    IN  IF RGt(imb, Tolerance)
        THEN [vals EXCEPT !["NO3"] = RAdd(@, RDiv(imb, R(valences["NO3"], 1)))]
        ELSE IF RLt(imb, RNeg(Tolerance))
        THEN LET missing == RAbs(imb)
             IN  [vals EXCEPT
                    !["K"] = RAdd(@, RDiv(RMul(missing, Half), R(valences["K"], 1))),
                    !["Ca"] = RAdd(@, RDiv(RMul(missing, Half), R(valences["Ca"], 1)))]
        ELSE vals

\* the note appended by the branch taken, if any
BalanceNotes(imb) ==
    IF RGt(imb, Tolerance) THEN <<Warning("scales", "", "Ajout de NO3")>>
    ELSE IF RLt(imb, RNeg(Tolerance)) THEN <<Warning("scales", "", "Ajout K/Ca")>>
    ELSE <<>>

\* the balance note put in front of the list
Balance_NoteFirst ==
    /\ pc = "balance"
    /\ imbalance' = Imbalance(adjusted_vals)
    /\ adjusted_vals' = Balanced(adjusted_vals)
    /\ warnings' = BalanceNotes(Imbalance(adjusted_vals)) \o warnings
    /\ pc' = "ec"
    /\ UNCHANGED <<inputs, idx, correction_term, current_meq, estimated_ec, ec_ratio,
                   final_drip_conc, fertilizer_needs, df_results, rendered>>

Balance ==
    /\ pc = "balance"
    /\ imbalance' = Imbalance(adjusted_vals)
    /\ adjusted_vals' = Balanced(adjusted_vals)
    /\ warnings' = warnings \o BalanceNotes(Imbalance(adjusted_vals))
    /\ pc' = "ec"
    /\ UNCHANGED <<inputs, idx, correction_term, current_meq, estimated_ec, ec_ratio,
                   final_drip_conc, fertilizer_needs, df_results, rendered>>

(***************************************************************************)
(* Stage C: EC correction.                                                 *)
(***************************************************************************)
\* current_meq after the guard against a zero sum
CurrentMeq(vals) ==
    LET meq == SumMeq(vals, Cations)
    IN  IF meq = Zero THEN MeqEpsilon ELSE meq

\* the safety floor left out
EstimatedEc_NoFloor(meq) == RDiv(meq, EcPerMeq)

\* estimated_ec after the safety floor
EstimatedEc(meq) ==
    LET ec == RDiv(meq, EcPerMeq)
    IN  IF RLt(ec, EcFloor) THEN EcFloor ELSE ec

EcRatio ==
    /\ pc = "ec"
    /\ current_meq' = CurrentMeq(adjusted_vals)
    /\ estimated_ec' = EstimatedEc(CurrentMeq(adjusted_vals))
    /\ ec_ratio' = RDiv(target_ec, EstimatedEc(CurrentMeq(adjusted_vals)))
    /\ pc' = "scale"
    /\ UNCHANGED <<inputs, idx, warnings, correction_term, adjusted_vals, imbalance,
                   final_drip_conc, fertilizer_needs, df_results, rendered>>

\* H2PO4 scaled like the bulk ions
Scaled_OnlyNH4Fixed(el, v, ratio) == IF el = "NH4" THEN v ELSE RMul(v, ratio)

\* final_drip_conc[el]
Scaled(el, v, ratio) == IF el \in Unscaled THEN v ELSE RMul(v, ratio)

Scale ==
    /\ pc = "scale"
    /\ final_drip_conc' = [el \in Ions |-> Scaled(el, adjusted_vals[el], ec_ratio)]
    /\ pc' = "water"
    /\ UNCHANGED <<inputs, idx, warnings, correction_term, adjusted_vals, imbalance,
                   current_meq, estimated_ec, ec_ratio, fertilizer_needs, df_results,
                   rendered>>

(***************************************************************************)
(* Stage D: subtraction of the raw water, one iteration of the loop.       *)
(***************************************************************************)
\* need after the floor at zero
Need(drip, water_content) ==
    LET need == RSub(drip, water_content)
    IN  IF RLt(need, Zero) THEN Zero ELSE need

\* the comparison made non-strict
Overloaded_NonStrict(drip, water_content) == RLe(RSub(drip, water_content), Zero)

\* whether the overload branch is taken
Overloaded(drip, water_content) == RLt(RSub(drip, water_content), Zero)

WaterStep ==
    /\ pc = "water"
    /\ LET el == elements[idx]
           water_content == Get(water_vals, el)
       IN  /\ fertilizer_needs' =
                 (el :> Need(final_drip_conc[el], water_content)) @@ fertilizer_needs
           /\ warnings' =
                 IF Overloaded(final_drip_conc[el], water_content)
                 THEN Append(warnings, Warning("rotating_light", el, "eau de source apporte deja trop"))
                 ELSE warnings
    /\ IF idx < Len(elements)
       THEN idx' = idx + 1 /\ pc' = pc
       ELSE idx' = 1 /\ pc' = "format"
    /\ UNCHANGED <<inputs, correction_term, adjusted_vals, imbalance, current_meq,
                   estimated_ec, ec_ratio, final_drip_conc, df_results, rendered>>

(***************************************************************************)
(* Summary table and return.                                               *)
(***************************************************************************)
Return ==
    /\ pc = "format"
    /\ df_results' = [target |-> Column(target_vals),
                      analysis |-> Column(analysis_vals),
                      adjusted |-> Column(adjusted_vals),
                      drip |-> Column(final_drip_conc),
                      water |-> Column(water_vals),
                      need |-> Column(fertilizer_needs)]
    /\ pc' = "returned"
    /\ UNCHANGED <<inputs, idx, warnings, correction_term, adjusted_vals, imbalance,
                   current_meq, estimated_ec, ec_ratio, final_drip_conc,
                   fertilizer_needs, rendered>>

(***************************************************************************)
(* Caller: display of the alerts.                                          *)
(***************************************************************************)
\* the Streamlit call chosen for one alert
Level(a) ==
    IF a.icon = "rotating_light" THEN "error"
    ELSE IF a.icon = "chart_decreasing" THEN "warning"
    ELSE "info"

Render ==
    /\ pc = "returned"
    /\ rendered' = IF warnings # <<>>
                   THEN [k \in 1..Len(warnings) |-> Level(warnings[k])]
                   ELSE <<"success">>
    /\ pc' = "done"
    /\ UNCHANGED <<inputs, idx, warnings, correction_term, adjusted_vals, imbalance,
                   current_meq, estimated_ec, ec_ratio, final_drip_conc,
                   fertilizer_needs, df_results>>

Next ==
    \/ FeedbackStep
    \/ Balance
    \/ EcRatio
    \/ Scale
    \/ WaterStep
    \/ Return
    \/ Render

Spec == Init /\ [][Next]_vars

(***************************************************************************)
(* Vocabulary of the properties.                                           *)
(***************************************************************************)
CapText == "Correction plafonnee"
CutText == "Stock substrat critique"
OverloadText == "eau de source apporte deja trop"
NoteTexts == {"Ajout de NO3", "Ajout K/Ca"}

\* positions of the warnings with a given text that name a given ion
Positions(text, el) ==
    {k \in 1..Len(warnings) : warnings[k].text = text /\ warnings[k].el = el}

\* 1 for a feedback warning, 2 for a balance note, 3 for a water warning
StageOf(w) ==
    IF w.text \in {CapText, CutText} THEN 1
    ELSE IF w.text \in NoteTexts THEN 2
    ELSE 3

IsPrefix(s, t) == Len(s) <= Len(t) /\ \A k \in 1..Len(s) : s[k] = t[k]

RMax(x, y) == IF RLt(x, y) THEN y ELSE x

AfterBalance == pc \notin {"feedback", "balance"}
AfterScale == pc \in {"water", "format", "returned", "done"}
AfterRatio == pc \in {"scale", "water", "format", "returned", "done"}

\* C1: with targetEC > 0 every value held by Adjusted, FinalDrip and
\* FertilizerNeed is >= 0, whatever the signs of the input concentrations.
C1_NonNegativity ==
    RGt(target_ec, Zero) =>
        /\ \A el \in DOMAIN adjusted_vals : RGe(adjusted_vals[el], Zero)
        /\ \A el \in DOMAIN final_drip_conc : RGe(final_drip_conc[el], Zero)
        /\ \A el \in DOMAIN fertilizer_needs : RGe(fertilizer_needs[el], Zero)

\* C1 witness: a finished run with targetEC > 0 in which a negative input
\* made the feedback floor act and the water floor acted as well.
C1_Witness ==
    /\ pc = "done"
    /\ RGt(target_ec, Zero)
    /\ \E el \in Ions : RLt(Get(uptake_vals, el), Zero) /\ Positions(CutText, el) # {}
    /\ \E el \in Ions : Positions(OverloadText, el) # {}
    /\ \E el \in Ions : RGt(fertilizer_needs[el], Zero)

\* C2: once the balancing stage has run, the charge imbalance of Adjusted is
\* within the tolerance 0.1, whichever branch was taken.
C2_Neutrality ==
    AfterBalance => RLe(RAbs(Imbalance(adjusted_vals)), Tolerance)

\* C2 witness: the cation-deficit branch (K and Ca added) was taken.
C2_Witness ==
    /\ pc = "done"
    /\ RLt(imbalance, RNeg(Tolerance))
    /\ Positions("Ajout K/Ca", "") # {}

\* C2, the other two branches are reached too.
C2_WitnessNO3 == pc = "done" /\ RGt(imbalance, Tolerance)
C2_WitnessNone == pc = "done" /\ RLe(RAbs(imbalance), Tolerance) /\ imbalance # Zero

\* the uncapped correction (target - analysis) * correctionFactor of an ion
RawCorrection(el) ==
    RMul(RSub(Get(target_vals, el), Get(analysis_vals, el)), correction_factor)

\* 0.6 * target[ion]
CapOf(el) == RMul(Get(target_vals, el), CapShare)

\* C3 as stated: the correction term has magnitude <= 0.6 * target[ion]; it
\* is the uncapped correction when that is within the bound and otherwise
\* +-0.6 * target[ion] with the sign of the gap, with a 'correction capped'
\* warning naming the ion exactly in the clamped case.
C3_Original ==
    \A el \in DOMAIN correction_term :
        LET gap == RSub(Get(target_vals, el), Get(analysis_vals, el))
            term == correction_term[el]
        IN  /\ RLe(RAbs(term), CapOf(el))
            /\ RLe(RAbs(RawCorrection(el)), CapOf(el)) =>
                  term = RawCorrection(el) /\ Positions(CapText, el) = {}
            /\ RGt(RAbs(RawCorrection(el)), CapOf(el)) =>
                  /\ RAbs(term) = CapOf(el)
                  /\ RGt(gap, Zero) => RGe(term, Zero)
                  /\ RLt(gap, Zero) => RLe(term, Zero)
                  /\ Cardinality(Positions(CapText, el)) = 1

\* C3 amended: the correction term has magnitude <= 0.6 * |target[ion]|; it
\* is the uncapped correction when |uncapped| <= 0.6 * target[ion], and
\* otherwise 0.6 * target[ion] when the gap is > 0 and -0.6 * target[ion]
\* when it is not, with exactly one 'correction capped' warning naming the
\* ion in that case and none in the other.
C3_CorrectionBound ==
    \A el \in DOMAIN correction_term :
        LET gap == RSub(Get(target_vals, el), Get(analysis_vals, el))
            term == correction_term[el]
        IN  /\ RLe(RAbs(term), RMul(RAbs(Get(target_vals, el)), CapShare))
            /\ RLe(RAbs(RawCorrection(el)), CapOf(el)) =>
                  term = RawCorrection(el) /\ Positions(CapText, el) = {}
            /\ RGt(RAbs(RawCorrection(el)), CapOf(el)) =>
                  /\ term = (IF RGt(gap, Zero) THEN CapOf(el) ELSE RNeg(CapOf(el)))
                  /\ Cardinality(Positions(CapText, el)) = 1

\* C3 witness: target 10, analysis 0, uptake 0, factor 1 for NO3 gives the
\* capped correction 6, Adjusted[NO3] = 6 and the warning for NO3.
C3_Witness ==
    /\ pc = "done"
    /\ Get(target_vals, "NO3") = R(10, 1)
    /\ Get(analysis_vals, "NO3") = Zero
    /\ Get(uptake_vals, "NO3") = Zero
    /\ correction_factor = R(1, 1)
    /\ correction_term["NO3"] = R(6, 1)
    /\ adjusted_vals["NO3"] = R(6, 1)
    /\ Cardinality(Positions(CapText, "NO3")) = 1

\* C3, a negative target is capped as well, against the sign of the gap.
C3_WitnessNegative ==
    \E el \in DOMAIN correction_term :
        /\ RLt(Get(target_vals, el), Zero)
        /\ RLt(RSub(Get(target_vals, el), Get(analysis_vals, el)), Zero)
        /\ RGt(correction_term[el], Zero)

C5_FixedIonInvariance ==
    AfterScale =>
        /\ final_drip_conc["NH4"] = adjusted_vals["NH4"]
        /\ final_drip_conc["H2PO4"] = adjusted_vals["H2PO4"]
        /\ \A el \in {"NO3", "SO4", "K", "Ca", "Mg"} :
              final_drip_conc[el] = RMul(adjusted_vals[el], ec_ratio)
        /\ RMul(ec_ratio, estimated_ec) = target_ec

\* C5 witness: a finished run with a ratio other than 1 and non-zero NH4,
\* H2PO4 and K, so that scaling an ion or not makes a difference.
C5_Witness ==
    /\ pc = "done"
    /\ ec_ratio # R(1, 1)
    /\ adjusted_vals["NH4"] # Zero
    /\ adjusted_vals["H2PO4"] # Zero
    /\ adjusted_vals["K"] # Zero
    /\ final_drip_conc["K"] # adjusted_vals["K"]

\* C6: FertilizerNeed[ion] = max(0, FinalDrip[ion] - water[ion]), an absent
\* water entry read as 0; exactly one 'source water overload' warning names
\* the ion when FinalDrip[ion] - water[ion] < 0 and none otherwise, and the
\* caller displays every such warning as an error (critical).
C6_WaterOverload ==
    /\ \A el \in DOMAIN fertilizer_needs :
          LET need == RSub(final_drip_conc[el], Get(water_vals, el))
          IN  /\ fertilizer_needs[el] = RMax(Zero, need)
              /\ Cardinality(Positions(OverloadText, el)) =
                    (IF RLt(need, Zero) THEN 1 ELSE 0)
    /\ \A el \in Ions \ DOMAIN fertilizer_needs : Positions(OverloadText, el) = {}
    /\ pc = "done" =>
          \A k \in 1..Len(warnings) :
              warnings[k].text = OverloadText => rendered[k] = "error"

\* C6 witness: FinalDrip[Ca] below water[Ca] = 3 gives FertilizerNeed[Ca] = 0
\* and one warning for Ca, displayed as an error; another ion keeps a need.
C6_Witness ==
    /\ pc = "done"
    /\ Get(water_vals, "Ca") = R(3, 1)
    /\ RGt(final_drip_conc["Ca"], Zero)
    /\ RLt(final_drip_conc["Ca"], R(3, 1))
    /\ fertilizer_needs["Ca"] = Zero
    /\ \E k \in Positions(OverloadText, "Ca") : rendered[k] = "error"
    /\ \E el \in Ions : RGt(fertilizer_needs[el], Zero)

\* C6, an absent water entry is read as 0.
C6_WitnessAbsent ==
    /\ pc = "done"
    /\ \E el \in Ions \ DOMAIN water_vals :
          RGt(final_drip_conc[el], Zero) /\ fertilizer_needs[el] = final_drip_conc[el]

\* uptake[ion] plus the capped correction term of an ion
BaseOf(el) == RAdd(Get(uptake_vals, el), correction_term[el])

\* the post-feedback value of an ion is still in Adjusted before balancing
PostFeedback(el) == pc \in {"feedback", "balance"} => adjusted_vals[el] = RMax(Zero, BaseOf(el))

\* the display level of every 'supply cut' warning, once displayed
CutLevelIs(level) ==
    pc = "done" =>
        \A k \in 1..Len(warnings) : warnings[k].text = CutText => rendered[k] = level

\* C7 as stated: when uptake plus the capped correction is < 0 the
\* post-feedback value is 0 and one 'supply cut' warning names the ion, a
\* critical one (displayed as an error); otherwise there is none for the ion.
C7_Original ==
    /\ \A el \in DOMAIN correction_term :
          /\ PostFeedback(el)
          /\ Cardinality(Positions(CutText, el)) =
                (IF RLt(BaseOf(el), Zero) THEN 1 ELSE 0)
    /\ CutLevelIs("error")

\* C7 amended: as stated, except that the 'supply cut' warning is displayed
\* at the caution level (st.warning), not as a critical alert (st.error).
C7_NegativeFloor ==
    /\ \A el \in DOMAIN correction_term :
          /\ PostFeedback(el)
          /\ Cardinality(Positions(CutText, el)) =
                (IF RLt(BaseOf(el), Zero) THEN 1 ELSE 0)
    /\ CutLevelIs("warning")

\* C7 witness: target 5, analysis 20, uptake 0, factor 1 for an ion gives a
\* negative sum, the value 0 after feedback and the warning for that ion.
C7_Witness ==
    /\ pc = "balance"
    /\ correction_factor = R(1, 1)
    /\ \E el \in Ions :
          /\ Get(target_vals, el) = R(5, 1)
          /\ Get(analysis_vals, el) = R(20, 1)
          /\ Get(uptake_vals, el) = Zero
          /\ RLt(BaseOf(el), Zero)
          /\ adjusted_vals[el] = Zero
          /\ Positions(CutText, el) # {}

\* C7, the warning has been displayed.
C7_WitnessDisplayed ==
    /\ pc = "done"
    /\ \E k \in 1..Len(warnings) : warnings[k].text = CutText /\ rendered[k] = "warning"

\* the warnings are ordered by stage, with at most one balance note
OrderedByStage ==
    /\ \A j, k \in 1..Len(warnings) : j < k => StageOf(warnings[j]) <= StageOf(warnings[k])
    /\ Cardinality({k \in 1..Len(warnings) : StageOf(warnings[k]) = 2}) <= 1

\* C8: the warnings list only grows at its end and is ordered by stage:
\* feedback warnings, then at most one balance note, then water warnings.
C8_WarningOrder ==
    /\ []OrderedByStage
    /\ [][IsPrefix(warnings, warnings')]_vars

\* C8 witness: a finished run whose list holds a feedback warning, a balance
\* note and a water warning.
C8_Witness ==
    /\ pc = "done"
    /\ \E k \in 1..Len(warnings) : StageOf(warnings[k]) = 1
    /\ \E k \in 1..Len(warnings) : StageOf(warnings[k]) = 2
    /\ \E k \in 1..Len(warnings) : StageOf(warnings[k]) = 3

\* target == analysis for all ions and water all zero
PerfectMatch ==
    /\ \A el \in Ions : Get(target_vals, el) = Get(analysis_vals, el)
    /\ \A el \in Ions : Get(water_vals, el) = Zero

NoFeedbackWarning == \A k \in 1..Len(warnings) : StageOf(warnings[k]) # 1

\* C9 as stated: on a perfect match no feedback-stage warning is returned.
C9_Original == PerfectMatch => NoFeedbackWarning

\* C9 amended: on a perfect match in which every target and every uptake is
\* >= 0, every correction term is 0 and no feedback-stage warning is
\* returned.
C9_PerfectMatch ==
    (/\ PerfectMatch
     /\ \A el \in Ions : RGe(Get(target_vals, el), Zero)
     /\ \A el \in Ions : RGe(Get(uptake_vals, el), Zero)) =>
        /\ \A el \in DOMAIN correction_term : correction_term[el] = Zero
        /\ NoFeedbackWarning

\* C9 witness: a finished perfect match with a positive target and a
\* positive uptake, where only a balance note was returned.
C9_Witness ==
    /\ pc = "done"
    /\ PerfectMatch
    /\ \A el \in Ions : RGe(Get(target_vals, el), Zero) /\ RGe(Get(uptake_vals, el), Zero)
    /\ \E el \in Ions : RGt(Get(target_vals, el), Zero) /\ RGt(Get(uptake_vals, el), Zero)
    /\ Len(warnings) = 1
    /\ StageOf(warnings[1]) = 2

\* C10: ecRatio = targetEC / max(0.2, max(0.1, currentMeq) / 10) with
\* currentMeq the cation charge sum of the balanced Adjusted vector, and the
\* divisor is >= 0.2.
C10_EcRatioFloors ==
    AfterRatio =>
        LET meq == SumMeq(adjusted_vals, Cations)
            divisor == RMax(EcFloor, RDiv(RMax(MeqEpsilon, meq), EcPerMeq))
        IN  /\ ec_ratio = RDiv(target_ec, divisor)
            /\ RGe(estimated_ec, EcFloor)
            /\ estimated_ec = divisor

\* C10 witness: a cation sum strictly between 0 and 0.1.
C10_Witness ==
    /\ pc = "done"
    /\ RGt(SumMeq(adjusted_vals, Cations), Zero)
    /\ RLt(SumMeq(adjusted_vals, Cations), MeqEpsilon)

\* C10, an all-zero Adjusted vector and a sum above both floors.
C10_WitnessZero == pc = "done" /\ \A el \in Ions : adjusted_vals[el] = Zero
C10_WitnessAbove == pc = "done" /\ RGt(estimated_ec, EcFloor)

====
